---- MODULE Spec2Model ----
(***************************************************************************)
(* Verification model of the Offer persistence adapter (OfferRepository).  *)
(*                                                                         *)
(* Spec          the repository's asynchronous methods (save, getById,     *)
(*               getAll, existsByName, existsByCode) over a row store, the *)
(*               payment provider and the event bus.  Every await of the   *)
(*               source is a point where an invocation is suspended.       *)
(* SpecFilter    mongoTransformer applied to bounded filter expressions.   *)
(* SpecRoundTrip row data -> mapToOffer -> row data.                       *)
(***************************************************************************)
EXTENDS Integers, Sequences, FiniteSets, TLC

(* A JavaScript value that may be null / undefined / absent. *)
None == <<>>
Some(x) == <<x>>
IsSome(o) == Len(o) = 1
Val(o) == o[1]

(* ------------------------------ bounds -------------------------------- *)
NumIds == 2
NumProcs == 1
MaxCalls == 3
MaxDepth == 2
MaxRedemptions == 1

Ids == 1 .. NumIds
Procs == 1 .. NumProcs
Codes == {"spring", "summer"}
Names == {"deal1", "other"}
Transactions == {"trx"}
StripeErrors == {"StripeConnectionError"}
StorageErrors == {"DatabaseError"}
TypeError == "TypeError"

VARIABLES
    storage,      \* offers table: id -> None | Some(row)
    redemptions,  \* offer id -> number of redemption rows
    couponSeq,    \* coupons the payment provider has created so far
    calls,        \* per invocation slot: the suspended async call
    nCalls,       \* invocations started so far
    couponCalls,  \* history: createCoupon calls made, per offer id
    newSaves,     \* history: save calls started with isNew, per offer id
    inserted,     \* history: the stripe_coupon_id each row was inserted with
    fq,           \* SpecFilter: the filter given to findAll
    fout,         \* SpecFilter: the query after mongoTransformer
    prune,        \* SpecFilter: whether mapQuery drops emptied sub-queries
    rt            \* SpecRoundTrip: the row / offer / rebuilt row

vars == <<storage, redemptions, couponSeq, calls, nCalls, couponCalls, newSaves, inserted, fq, fout, prune, rt>>
filterVars == <<fq, fout, prune>>
history == <<couponCalls, newSaves, inserted>>
repoVars == <<storage, redemptions, couponSeq, calls, nCalls, history>>

(* ------------------- domain model (Offer, its events) ------------------ *)
ProductName(pid) == "tier"

(* Offer.create(data, null): the entity built from stored data. *)
OfferCreate(data) ==
    [ id |-> data.id,
      name |-> data.name,
      code |-> data.code,
      displayTitle |-> data.display_title,
      displayDescription |-> data.display_description,
      type |-> data.type,
      amount |-> data.amount,
      cadence |-> data.cadence,
      currency |-> data.currency,
      duration |-> [type |-> data.duration, months |-> data.duration_in_months],
      tier |-> data.tier,
      status |-> data.status,
      redemptionCount |-> data.redemptionCount,
      stripe_coupon_id |-> data.stripe_coupon_id,
      isNew |-> FALSE,
      codeChanged |-> FALSE,
      oldCode |-> None,
      loadedCode |-> Some(data.code) ]   \* history: the code the offer was loaded with

(* An offer that has never been saved: no external id, no previous code. *)
OfferCreateNew(id, name, code, shape, cadence, status) ==
    [ id |-> id,
      name |-> name,
      code |-> code,
      displayTitle |-> "title",
      displayDescription |-> "description",
      type |-> shape.type,
      amount |-> shape.amount,
      cadence |-> cadence,
      currency |-> shape.currency,
      duration |-> shape.duration,
      tier |-> [id |-> 1, name |-> ProductName(1)],
      status |-> status,
      redemptionCount |-> 0,
      stripe_coupon_id |-> None,
      isNew |-> TRUE,
      codeChanged |-> FALSE,
      oldCode |-> None,
      loadedCode |-> None ]

(* Changing the code of a loaded offer remembers the code it was loaded with. *)
UpdateCode(offer, code) ==
    IF code = offer.code THEN offer
    ELSE [offer EXCEPT !.code = code,
                       !.codeChanged = TRUE,
                       !.oldCode = IF offer.codeChanged THEN offer.oldCode ELSE Some(offer.code)]

Archive(offer) == [offer EXCEPT !.status = "archived"]

OfferCodeChangeEvent(data) ==
    [offerId |-> data.offerId, previousCode |-> data.previousCode, currentCode |-> data.currentCode]

(* ----------------------- row <-> domain mapping ------------------------ *)
(* model.toJSON() of a row fetched withRelated: ['product'] *)
toJSON(row) ==
    [f \in DOMAIN row \cup {"product"} |->
        IF f = "product" THEN [id |-> row.product_id, name |-> ProductName(row.product_id)]
        ELSE row[f]]

DomainTypeM(discount_type) == IF discount_type = "amount" THEN "percent" ELSE "fixed"
DomainType(discount_type) == IF discount_type = "amount" THEN "fixed" ELSE "percent"

DomainStatus(active) == IF active THEN "active" ELSE "archived"

(* mapToOffer after its count query has resolved with `count` *)
mapToOffer(json, count) ==
    OfferCreate(
        [ id |-> json.id,
          name |-> json.name,
          code |-> json.code,
          display_title |-> json.portal_title,
          display_description |-> json.portal_description,
          type |-> DomainType(json.discount_type),
          amount |-> json.discount_amount,
          cadence |-> json.interval,
          currency |-> json.currency,
          duration |-> json.duration,
          duration_in_months |-> json.duration_in_months,
          redemptionCount |-> count,
          stripe_coupon_id |-> json.stripe_coupon_id,
          status |-> DomainStatus(json.active),
          tier |-> [id |-> json.product.id, name |-> json.product.name] ])

(* the `data` object save builds from the offer *)
SaveData(offer) ==
    [ id |-> offer.id,
      name |-> offer.name,
      code |-> offer.code,
      portal_title |-> offer.displayTitle,
      portal_description |-> offer.displayDescription,
      discount_type |-> IF offer.type = "fixed" THEN "amount" ELSE "percent",
      discount_amount |-> offer.amount,
      interval |-> offer.cadence,
      product_id |-> offer.tier.id,
      duration |-> offer.duration.type,
      duration_in_months |-> IF offer.duration.type = "repeating" THEN offer.duration.months ELSE None,
      currency |-> IF IsSome(offer.currency) THEN offer.currency ELSE None,
      active |-> (offer.status = "active") ]

ShouldDispatchM(offer) == offer.codeChanged
ShouldDispatch(offer) == offer.codeChanged \/ offer.isNew

SaveEvent(offer) ==
    OfferCodeChangeEvent([offerId |-> offer.id, previousCode |-> offer.oldCode, currentCode |-> offer.code])

TakesCreatePathM(offer) == TRUE
TakesCreatePath(offer) == offer.isNew

(* Stripe.CouponCreateParams built for a new offer; absent fields are None *)
CouponParams(offer) ==
    [ name |-> offer.name,
      duration |-> offer.duration.type,
      duration_in_months |-> IF offer.duration.type = "repeating" THEN offer.duration.months ELSE None,
      percent_off |-> IF offer.type = "percent" THEN Some(offer.amount) ELSE None,
      amount_off |-> IF offer.type = "percent" THEN None ELSE Some(offer.amount),
      currency |-> IF offer.type = "percent" THEN None ELSE offer.currency ]

AttachCouponM(data, couponData) ==
    [f \in DOMAIN data \cup {"stripe_coupon_id"} |->
        IF f = "stripe_coupon_id" THEN 0 ELSE data[f]]
AttachCoupon(data, couponData) ==
    [f \in DOMAIN data \cup {"stripe_coupon_id"} |->
        IF f = "stripe_coupon_id" THEN couponData.id ELSE data[f]]

(* options of the edit call: {...options, id: data.id} *)
EditOptions(data, options) ==
    [transacting |-> IF IsSome(options) THEN Val(options).transacting ELSE None, id |-> data.id]

(* OfferModel.edit updates the columns present in data and keeps the others *)
EditRow(row, data) ==
    [f \in DOMAIN row |-> IF f \in DOMAIN data THEN data[f] ELSE row[f]]

(* --------------------------- invocations ------------------------------- *)
Idle ==
    [ op |-> "none", pc |-> "idle",
      offer |-> None,         \* save: the offer argument
      id |-> 0,               \* getById: the id argument
      key |-> "",             \* existsByName / existsByCode: the argument
      options |-> None,       \* the options argument, None when omitted
      data |-> None,          \* save: the local `data`
      dispatched |-> <<>>,    \* events this call handed to DomainEvents.dispatch
      couponParams |-> None,  \* argument of the createCoupon call
      couponData |-> None,    \* what createCoupon resolved with
      written |-> None,       \* [data, options] of the add / edit call
      found |-> None,         \* arguments of the findOne / findAll call
      models |-> <<>>,        \* rows findOne / findAll resolved with
      counts |-> <<>>,        \* per model: None | Some(count)
      countTx |-> <<>>,       \* per count query: the transacting it was given
      trace |-> <<>>,         \* collaborator calls and completions, in order
      outstanding |-> {},     \* operations started and not yet completed
      result |-> None,
      raised |-> None,        \* the failure a collaborator raised, if any
      error |-> None ]        \* what the call rejected with

Op(name, k) == <<name, k>>

Transacting(options) == IF IsSome(options) THEN Val(options).transacting ELSE None

(* options omitted, or supplied with a transaction *)
OptionsSet ==
    {None} \cup {Some([transacting |-> Some(x), filter |-> None]) : x \in Transactions}

Finished(c) == c.pc \in {"resolved", "rejected"}

(* a new invocation takes the lowest free slot (slots are interchangeable) *)
CanStart(p) ==
    /\ calls[p].pc = "idle"
    /\ \A q \in Procs : q < p => calls[q].pc /= "idle"
    /\ nCalls < MaxCalls

(* ------------------------------- save ---------------------------------- *)
FixedShape ==
    [type |-> "fixed", amount |-> 500, currency |-> Some("usd"),
     duration |-> [type |-> "once", months |-> None]]
PercentShape ==
    [type |-> "percent", amount |-> 20, currency |-> None,
     duration |-> [type |-> "repeating", months |-> Some(3)]]

NameOf(id) == "deal" \o ToString(id)

(* offers with an odd id are fixed-amount offers, the others percent offers *)
ShapeOf(id) == IF id % 2 = 1 THEN FixedShape ELSE PercentShape

NewOffers ==
    {OfferCreateNew(id, NameOf(id), "spring", ShapeOf(id), "month", "active") : id \in Ids}

Edits(offer) == {offer, Archive(offer)} \cup {UpdateCode(offer, c) : c \in Codes}

LoadedOffers ==
    UNION {Edits(mapToOffer(toJSON(Val(storage[id])), redemptions[id])) :
              id \in {i \in Ids : IsSome(storage[i])}}

(* the part of save that runs before its first await: lines 169-213 / 217 *)
SaveFirstSegmentM(offer) ==
    <<IF TakesCreatePath(offer) THEN "createCoupon.call" ELSE "edit.call">>
        \o (IF ShouldDispatch(offer) THEN <<"dispatch">> ELSE <<>>)
SaveFirstSegment(offer) ==
    (IF ShouldDispatch(offer) THEN <<"dispatch">> ELSE <<>>)
        \o <<IF TakesCreatePath(offer) THEN "createCoupon.call" ELSE "edit.call">>

SaveStart(p, offer, options) ==
    /\ CanStart(p)
    /\ LET data == SaveData(offer)
           create == TakesCreatePath(offer)
       IN /\ calls' = [calls EXCEPT ![p] =
                 [Idle EXCEPT !.op = "save",
                              !.offer = Some(offer),
                              !.options = options,
                              !.data = Some(data),
                              !.dispatched = IF ShouldDispatch(offer) THEN <<SaveEvent(offer)>> ELSE <<>>,
                              !.trace = SaveFirstSegment(offer),
                              !.couponParams = IF create THEN Some(CouponParams(offer)) ELSE None,
                              !.written = IF create THEN None
                                          ELSE Some([data |-> data, options |-> EditOptions(data, options)]),
                              !.outstanding = IF create THEN {Op("createCoupon", 0)} ELSE {Op("edit", 0)},
                              !.pc = IF create THEN "awaitCoupon" ELSE "awaitEdit"]]
          /\ couponCalls' = [couponCalls EXCEPT ![offer.id] = @ + (IF create THEN 1 ELSE 0)]
          /\ newSaves' = [newSaves EXCEPT ![offer.id] = @ + (IF offer.isNew THEN 1 ELSE 0)]
    /\ nCalls' = nCalls + 1
    /\ UNCHANGED <<storage, redemptions, couponSeq, inserted, filterVars, rt>>

(* createCoupon resolved: lines 213-215 up to the await of add *)
CreateCouponResolve(p) ==
    /\ calls[p].pc = "awaitCoupon"
    /\ LET c == calls[p]
           couponData == [id |-> couponSeq + 1]
           data == AttachCoupon(Val(c.data), couponData)
       IN calls' = [calls EXCEPT ![p] =
                 [c EXCEPT !.couponData = Some(couponData),
                           !.data = Some(data),
                           !.written = Some([data |-> data, options |-> c.options]),
                           !.trace = c.trace \o <<"createCoupon.ok", "add.call">>,
                           !.outstanding = {Op("add", 0)},
                           !.pc = "awaitAdd"]]
    /\ couponSeq' = couponSeq + 1
    /\ UNCHANGED <<storage, redemptions, nCalls, history, filterVars, rt>>

(* a rejected await rethrows: the async function rejects with the same error *)
Rejected(c, label, err) ==
    [c EXCEPT !.trace = c.trace \o <<label>>,
              !.outstanding = {},
              !.raised = Some(err),
              !.error = Some(err),
              !.pc = "rejected"]

(* an exception thrown by the method's own code rejects the call *)
Thrown(c, label, err) ==
    [c EXCEPT !.trace = c.trace \o <<label>>,
              !.outstanding = {},
              !.error = Some(err),
              !.pc = "rejected"]

CreateCouponRejectM(p, err) ==
    /\ calls[p].pc = "awaitCoupon"
    /\ LET c == calls[p]
           data == Val(c.data)
       IN calls' = [calls EXCEPT ![p] =
                 [c EXCEPT !.written = Some([data |-> data, options |-> c.options]),
                           !.trace = c.trace \o <<"createCoupon.err", "add.call">>,
                           !.outstanding = {Op("add", 0)},
                           !.pc = "awaitAdd"]]
    /\ UNCHANGED <<storage, redemptions, couponSeq, nCalls, history, filterVars, rt>>
CreateCouponReject(p, err) ==
    /\ calls[p].pc = "awaitCoupon"
    /\ calls' = [calls EXCEPT ![p] = Rejected(calls[p], "createCoupon.err", err)]
    /\ UNCHANGED <<storage, redemptions, couponSeq, nCalls, history, filterVars, rt>>

(* OfferModel.add inserts a row; the primary key makes a second insert fail *)
AddResolve(p) ==
    /\ calls[p].pc = "awaitAdd"
    /\ LET c == calls[p]
           data == Val(c.written).data
       IN /\ ~IsSome(storage[data.id])
          /\ storage' = [storage EXCEPT ![data.id] = Some(data)]
          /\ inserted' = [inserted EXCEPT ![data.id] = Some(data.stripe_coupon_id)]
          /\ calls' = [calls EXCEPT ![p] =
                 [c EXCEPT !.trace = c.trace \o <<"add.ok">>,
                           !.outstanding = {},
                           !.pc = "resolved"]]
    /\ UNCHANGED <<redemptions, couponSeq, nCalls, couponCalls, newSaves, filterVars, rt>>

AddReject(p, err) ==
    /\ calls[p].pc = "awaitAdd"
    /\ calls' = [calls EXCEPT ![p] = Rejected(calls[p], "add.err", err)]
    /\ UNCHANGED <<storage, redemptions, couponSeq, nCalls, history, filterVars, rt>>

EditResolve(p) ==
    /\ calls[p].pc = "awaitEdit"
    /\ LET c == calls[p]
           w == Val(c.written)
       IN /\ IsSome(storage[w.options.id])
          /\ storage' = [storage EXCEPT ![w.options.id] = Some(EditRow(Val(@), w.data))]
          /\ calls' = [calls EXCEPT ![p] =
                 [c EXCEPT !.trace = c.trace \o <<"edit.ok">>,
                           !.outstanding = {},
                           !.pc = "resolved"]]
    /\ UNCHANGED <<redemptions, couponSeq, nCalls, history, filterVars, rt>>

EditReject(p, err) ==
    /\ calls[p].pc = "awaitEdit"
    /\ calls' = [calls EXCEPT ![p] = Rejected(calls[p], "edit.err", err)]
    /\ UNCHANGED <<storage, redemptions, couponSeq, nCalls, history, filterVars, rt>>

(* the caller has observed the outcome; the slot is free for the next call *)
Return(p) ==
    /\ Finished(calls[p])
    /\ calls[p].outstanding = {}
    /\ calls' = [calls EXCEPT ![p] = Idle]
    /\ UNCHANGED <<storage, redemptions, couponSeq, nCalls, history, filterVars, rt>>

(* ------------------------ filter transformation ------------------------ *)
(* A mongo-style query object is a sequence of entries, one per key.  An   *)
(* entry of a logical key ($and, $or) carries its sub-queries in kids; any *)
(* other entry carries a JavaScript value, tagged with its type.           *)
Str(s) == <<"string", s>>
Bool(b) == <<"boolean", b>>
Cond(key, val) == [key |-> key, val |-> val, kids |-> <<>>]
Group(key, kids) == [key |-> key, val |-> Str(""), kids |-> kids]
IsLogical(key) == key \in {"$and", "$or"}

(* the values table of statusTransformer *)
StatusValue(val) ==
    IF val = Str("active") THEN Bool(TRUE)
    ELSE IF val = Str("archived") THEN Bool(FALSE)
    ELSE val

(* the callback of mapKeyValues({key: {from: 'status', to: 'active'}, values}) *)
StatusFn(e) == IF e.key = "status" THEN <<Cond("active", StatusValue(e.val))>> ELSE <<e>>

(* the callback of rejectNonStatusTransformer: undefined (no entry) for any *)
(* key but status                                                          *)
RejectFnM(e) == <<e>>
RejectFn(e) == IF e.key /= "status" THEN <<>> ELSE <<e>>

(* the two callbacks handed to mapQuery *)
ApplyFn(fn, e) == IF fn = "rejectNonStatus" THEN RejectFn(e) ELSE StatusFn(e)

(* mapQuery(query, fn) of @nexes/mongo-utils: fn maps every non-logical    *)
(* (value, key) to the entries that replace it (none when it returns       *)
(* undefined); logical keys are kept and their sub-queries mapped.  With   *)
(* dropEmpty, sub-queries left without entries are removed, and a group    *)
(* left without sub-queries is removed with them.                          *)
RECURSIVE mapQuery(_, _, _)
RECURSIVE mapKids(_, _, _)
mapQuery(query, fn, dropEmpty) ==
    IF query = <<>> THEN <<>>
    ELSE LET e == Head(query)
             kids == mapKids(e.kids, fn, dropEmpty)
             mapped == IF ~IsLogical(e.key) THEN ApplyFn(fn, e)
                       ELSE IF dropEmpty /\ kids = <<>> THEN <<>>
                       ELSE <<Group(e.key, kids)>>
         IN mapped \o mapQuery(Tail(query), fn, dropEmpty)

mapKids(kids, fn, dropEmpty) ==
    IF kids = <<>> THEN <<>>
    ELSE LET m == mapQuery(Head(kids), fn, dropEmpty)
         IN (IF dropEmpty /\ m = <<>> THEN <<>> ELSE <<m>>) \o mapKids(Tail(kids), fn, dropEmpty)

statusTransformer(query, dropEmpty) == mapQuery(query, "mapKeyValues", dropEmpty)

rejectNonStatusTransformer(input, dropEmpty) == mapQuery(input, "rejectNonStatus", dropEmpty)

(* flowRight(statusTransformer, rejectNonStatusTransformer) *)
mongoTransformer(query, dropEmpty) ==
    statusTransformer(rejectNonStatusTransformer(query, dropEmpty), dropEmpty)

(* ------------------------------ reads ---------------------------------- *)
(* how the storage layer evaluates an effective query on a row *)
RECURSIVE Matches(_, _)
Matches(row, query) ==
    \A i \in 1 .. Len(query) :
        LET e == query[i]
        IN IF e.key = "$and" THEN \A k \in 1 .. Len(e.kids) : Matches(row, e.kids[k])
           ELSE IF e.key = "$or" THEN \E k \in 1 .. Len(e.kids) : Matches(row, e.kids[k])
           ELSE IF e.key = "active" THEN Bool(row.active) = e.val
           ELSE IF e.key = "name" THEN Str(row.name) = e.val
           ELSE IF e.key = "code" THEN Str(row.code) = e.val
           ELSE FALSE

RECURSIVE RowsFrom(_, _)
RowsFrom(id, query) ==
    IF id > NumIds THEN <<>>
    ELSE (IF IsSome(storage[id]) /\ Matches(Val(storage[id]), query) THEN <<Val(storage[id])>> ELSE <<>>)
             \o RowsFrom(id + 1, query)

(* OfferModel.findOne(data): the first row whose columns equal data *)
FindOne(query) == LET rows == RowsFrom(1, query) IN IF rows = <<>> THEN None ELSE Some(rows[1])

(* OfferModel.findAll({filter, mongoTransformer}): rows matching the transformed filter *)
FindAll(options) ==
    IF IsSome(options) /\ IsSome(Val(options).filter)
    THEN RowsFrom(1, mongoTransformer(Val(Val(options).filter), FALSE))
    ELSE RowsFrom(1, <<>>)

ExistsStart(p, field, value, options) ==
    /\ CanStart(p)
    /\ calls' = [calls EXCEPT ![p] =
           [Idle EXCEPT !.op = IF field = "name" THEN "existsByName" ELSE "existsByCode",
                        !.key = value,
                        !.options = options,
                        !.found = Some([query |-> <<Cond(field, Str(value))>>, options |-> options]),
                        !.trace = <<"findOne.call">>,
                        !.outstanding = {Op("findOne", 0)},
                        !.pc = "awaitExists"]]
    /\ nCalls' = nCalls + 1
    /\ UNCHANGED <<storage, redemptions, couponSeq, history, filterVars, rt>>

ExistsResolve(p) ==
    /\ calls[p].pc = "awaitExists"
    /\ LET c == calls[p]
           model == FindOne(Val(c.found).query)
       IN calls' = [calls EXCEPT ![p] =
              [c EXCEPT !.trace = c.trace \o <<"findOne.ok">>,
                        !.outstanding = {},
                        !.result = Some(IF ~IsSome(model) THEN FALSE ELSE TRUE),
                        !.pc = "resolved"]]
    /\ UNCHANGED <<storage, redemptions, couponSeq, nCalls, history, filterVars, rt>>

GetByIdStart(p, id, options) ==
    /\ CanStart(p)
    /\ calls' = [calls EXCEPT ![p] =
           [Idle EXCEPT !.op = "getById",
                        !.id = id,
                        !.options = options,
                        !.found = Some([id |-> id, transacting |-> Transacting(options), withRelated |-> <<"product">>]),
                        !.trace = <<"findOne.call">>,
                        !.outstanding = {Op("findOne", 0)},
                        !.pc = "awaitFindOne"]]
    /\ nCalls' = nCalls + 1
    /\ UNCHANGED <<storage, redemptions, couponSeq, history, filterVars, rt>>

(* Reading options.transacting in mapToOffer: a TypeError when options is undefined *)
ReadsTransacting(options) == IsSome(options)

(* findOne resolved; mapToOffer runs up to its await of the count query *)
FindOneResolve(p) ==
    /\ calls[p].pc = "awaitFindOne"
    /\ LET c == calls[p]
           model == storage[c.id]
       IN calls' = [calls EXCEPT ![p] =
              IF ~IsSome(model)
              THEN Thrown(c, "findOne.ok", TypeError)
              ELSE IF ~ReadsTransacting(c.options)
              THEN Thrown([c EXCEPT !.models = <<toJSON(Val(model))>>], "findOne.ok", TypeError)
              ELSE [c EXCEPT !.models = <<toJSON(Val(model))>>,
                             !.counts = <<None>>,
                             !.countTx = <<Transacting(c.options)>>,
                             !.trace = c.trace \o <<"findOne.ok", "count.call">>,
                             !.outstanding = {Op("count", 1)},
                             !.pc = "awaitCount"]]
    /\ UNCHANGED <<storage, redemptions, couponSeq, nCalls, history, filterVars, rt>>

(* findOne / findAll of any read rejected *)
FindReject(p, err) ==
    /\ calls[p].pc \in {"awaitExists", "awaitFindOne", "awaitFindAll"}
    /\ calls' = [calls EXCEPT ![p] = Rejected(calls[p], "find.err", err)]
    /\ UNCHANGED <<storage, redemptions, couponSeq, nCalls, history, filterVars, rt>>

GetAllStart(p, options) ==
    /\ CanStart(p)
    /\ calls' = [calls EXCEPT ![p] =
           [Idle EXCEPT !.op = "getAll",
                        !.options = options,
                        !.found = Some([options |-> options, withRelated |-> <<"product">>]),
                        !.trace = <<"findAll.call">>,
                        !.outstanding = {Op("findAll", 0)},
                        !.pc = "awaitFindAll"]]
    /\ nCalls' = nCalls + 1
    /\ UNCHANGED <<storage, redemptions, couponSeq, history, filterVars, rt>>

(* the count queries models.map(...) starts, one per model, in one synchronous pass *)
StartedCountsM(n) == IF n = 0 THEN {} ELSE {Op("count", 1)}
StartedCounts(n) == {Op("count", i) : i \in 1 .. n}

(* findAll resolved; models.map calls mapToOffer for every model *)
FindAllResolve(p) ==
    /\ calls[p].pc = "awaitFindAll"
    /\ LET c == calls[p]
           models == FindAll(c.options)
           n == Len(models)
           mapOptions == [transacting |-> Transacting(c.options)]
       IN calls' = [calls EXCEPT ![p] =
              [c EXCEPT !.models = [i \in 1 .. n |-> toJSON(models[i])],
                        !.counts = [i \in 1 .. n |-> None],
                        !.countTx = [i \in 1 .. n |-> mapOptions.transacting],
                        !.trace = c.trace \o <<"findAll.ok">> \o [i \in 1 .. n |-> "count.call"],
                        !.outstanding = StartedCounts(n),
                        !.result = IF n = 0 THEN Some(<<>>) ELSE None,
                        !.pc = IF n = 0 THEN "resolved" ELSE "awaitCounts"]]
    /\ UNCHANGED <<storage, redemptions, couponSeq, nCalls, history, filterVars, rt>>

(* a count query resolved: its mapToOffer builds the Offer; getById returns *)
(* it, getAll's Promise.all resolves once every element has resolved        *)
CountResolve(p, i) ==
    /\ Op("count", i) \in calls[p].outstanding
    /\ LET c == calls[p]
           counts == [c.counts EXCEPT ![i] = Some(redemptions[c.models[i].id])]
           left == c.outstanding \ {Op("count", i)}
           offers == [k \in 1 .. Len(c.models) |-> mapToOffer(c.models[k], Val(counts[k]))]
       IN calls' = [calls EXCEPT ![p] =
              IF c.pc = "rejected"
              THEN [c EXCEPT !.outstanding = left]
              ELSE [c EXCEPT !.counts = counts,
                             !.trace = c.trace \o <<"count.ok">>,
                             !.outstanding = left,
                             !.result = IF left /= {} THEN None
                                        ELSE IF c.op = "getById" THEN Some(offers[1])
                                        ELSE Some(offers),
                             !.pc = IF left /= {} THEN c.pc ELSE "resolved"]]
    /\ UNCHANGED <<storage, redemptions, couponSeq, nCalls, history, filterVars, rt>>

(* a count query rejected: the call rejects at once; in getAll the other *)
(* count queries stay in flight and their outcomes are ignored            *)
CountReject(p, i, err) ==
    /\ Op("count", i) \in calls[p].outstanding
    /\ LET c == calls[p]
           left == c.outstanding \ {Op("count", i)}
       IN calls' = [calls EXCEPT ![p] =
              IF c.pc = "rejected"
              THEN [c EXCEPT !.outstanding = left]
              ELSE [c EXCEPT !.trace = c.trace \o <<"count.err">>,
                             !.outstanding = left,
                             !.raised = Some(err),
                             !.error = Some(err),
                             !.pc = "rejected"]]
    /\ UNCHANGED <<storage, redemptions, couponSeq, nCalls, history, filterVars, rt>>

(* ------------------------- the repository ------------------------------ *)
RtIdle == [pc |-> "idle", offer |-> None, row |-> None, loaded |-> None, rebuilt |-> None]

GetAllFilters ==
    { None,
      Some(<<Cond("status", Str("archived"))>>),
      Some(<<Cond("name", Str("deal1"))>>) }

ListOptionsSet ==
    {None} \cup {Some([transacting |-> t, filter |-> f]) :
                    t \in {Some(x) : x \in Transactions}, f \in GetAllFilters}

Init ==
    /\ storage = [id \in Ids |-> None]
    /\ redemptions = [id \in Ids |-> id % (MaxRedemptions + 1)]
    /\ couponSeq = 0
    /\ calls = [p \in Procs |-> Idle]
    /\ nCalls = 0
    /\ couponCalls = [id \in Ids |-> 0]
    /\ newSaves = [id \in Ids |-> 0]
    /\ inserted = [id \in Ids |-> None]
    /\ fq = <<>>
    /\ fout = None
    /\ prune = FALSE
    /\ rt = RtIdle

Next ==
    \E p \in Procs :
        \/ \E offer \in NewOffers, options \in OptionsSet : SaveStart(p, offer, options)
        \/ \E offer \in LoadedOffers, options \in OptionsSet : SaveStart(p, offer, options)
        \/ CreateCouponResolve(p)
        \/ \E err \in StripeErrors : CreateCouponReject(p, err)
        \/ AddResolve(p)
        \/ \E err \in StorageErrors : AddReject(p, err)
        \/ EditResolve(p)
        \/ \E err \in StorageErrors : EditReject(p, err)
        \/ \E value \in Names : ExistsStart(p, "name", value, None)
        \/ \E value \in Codes : ExistsStart(p, "code", value, None)
        \/ ExistsResolve(p)
        \/ \E id \in Ids, options \in OptionsSet : GetByIdStart(p, id, options)
        \/ FindOneResolve(p)
        \/ \E err \in StorageErrors : FindReject(p, err)
        \/ \E options \in ListOptionsSet : GetAllStart(p, options)
        \/ FindAllResolve(p)
        \/ \E i \in Ids : CountResolve(p, i)
        \/ \E i \in Ids, err \in StorageErrors : CountReject(p, i, err)
        \/ Return(p)

Spec == Init /\ [][Next]_vars

(* --------------------- SpecFilter: mongoTransformer -------------------- *)
FlatQueries ==
    { <<>>,
      <<Cond("status", Str("active"))>>,
      <<Cond("status", Str("archived"))>>,
      <<Cond("name", Str("deal"))>>,
      <<Cond("status", Str("archived")), Cond("name", Str("deal"))>>,
      <<Cond("code", Str("spring")), Cond("status", Str("active"))>>,
      <<Cond("active", Bool(FALSE)), Cond("status", Str("active"))>> }

RECURSIVE Queries(_)
Queries(depth) ==
    IF depth = 0 THEN FlatQueries
    ELSE FlatQueries \cup
         { pre \o <<Group(op, <<a, b>>)>> :
             pre \in {<<>>, <<Cond("name", Str("deal"))>>},
             op \in {"$and", "$or"},
             a \in Queries(depth - 1),
             b \in FlatQueries }

(* prune ranges over both treatments of emptied sub-queries by mapQuery *)
InitFilter ==
    /\ storage = [id \in Ids |-> None]
    /\ redemptions = [id \in Ids |-> 0]
    /\ couponSeq = 0
    /\ calls = [p \in Procs |-> Idle]
    /\ nCalls = 0
    /\ couponCalls = [id \in Ids |-> 0]
    /\ newSaves = [id \in Ids |-> 0]
    /\ inserted = [id \in Ids |-> None]
    /\ fq \in Queries(MaxDepth)
    /\ fout = None
    /\ prune \in BOOLEAN
    /\ rt = RtIdle

(* the storage layer applies options.mongoTransformer to the parsed filter *)
Transform ==
    /\ fout = None
    /\ fout' = Some(mongoTransformer(fq, prune))
    /\ UNCHANGED <<repoVars, fq, prune, rt>>

NextFilter == Transform

SpecFilter == InitFilter /\ [][NextFilter]_vars

(* ------------------ SpecRoundTrip: row -> Offer -> row ----------------- *)
RtShapes ==
    { [type |-> t, amount |-> a, currency |-> c, duration |-> d] :
        t \in {"fixed", "percent"},
        a \in {20, 500},
        c \in {None, Some("usd"), Some("eur")},
        d \in { [type |-> "once", months |-> None],
                [type |-> "forever", months |-> None],
                [type |-> "repeating", months |-> Some(1)],
                [type |-> "repeating", months |-> Some(12)] } }

(* the domain's invariant: a fixed-amount offer has a currency *)
ValidShapes == {sh \in RtShapes : sh.type = "fixed" => IsSome(sh.currency)}

RtOffers ==
    { OfferCreateNew(1, NameOf(1), code, sh, cadence, status) :
        code \in Codes, sh \in ValidShapes, cadence \in {"month", "year"}, status \in {"active", "archived"} }

InitRoundTrip ==
    /\ storage = [id \in Ids |-> None]
    /\ redemptions = [id \in Ids |-> 0]
    /\ couponSeq = 0
    /\ calls = [p \in Procs |-> Idle]
    /\ nCalls = 0
    /\ couponCalls = [id \in Ids |-> 0]
    /\ newSaves = [id \in Ids |-> 0]
    /\ inserted = [id \in Ids |-> None]
    /\ fq = <<>>
    /\ fout = None
    /\ prune = FALSE
    /\ rt \in {[RtIdle EXCEPT !.pc = "created", !.offer = Some(o)] : o \in RtOffers}

(* save of a new offer: the row inserted is data with the coupon id attached *)
RtInsert ==
    /\ rt.pc = "created"
    /\ rt' = [rt EXCEPT !.pc = "stored",
                        !.row = Some(AttachCoupon(SaveData(Val(rt.offer)), [id |-> 1]))]
    /\ UNCHANGED <<repoVars, filterVars>>

(* getById: the stored row mapped to an Offer *)
RtLoad ==
    /\ rt.pc = "stored"
    /\ \E count \in 0 .. MaxRedemptions :
           rt' = [rt EXCEPT !.pc = "loaded",
                            !.loaded = Some(mapToOffer(toJSON(Val(rt.row)), count))]
    /\ UNCHANGED <<repoVars, filterVars>>

(* save of the loaded offer: the row data built from it *)
RtRebuild ==
    /\ rt.pc = "loaded"
    /\ rt' = [rt EXCEPT !.pc = "rebuilt", !.rebuilt = Some(SaveData(Val(rt.loaded)))]
    /\ UNCHANGED <<repoVars, filterVars>>

NextRoundTrip == RtInsert \/ RtLoad \/ RtRebuild

SpecRoundTrip == InitRoundTrip /\ [][NextRoundTrip]_vars

(* ============================== claims ================================= *)
Count(trace, label) == Cardinality({i \in 1 .. Len(trace) : trace[i] = label})
Has(trace, label) == \E i \in 1 .. Len(trace) : trace[i] = label
Pos(trace, label) == CHOOSE i \in 1 .. Len(trace) : trace[i] = label /\ \A j \in 1 .. i - 1 : trace[j] /= label

IsSave(c) == c.op = "save"
SaveOfNew(c) == IsSave(c) /\ Val(c.offer).isNew
SaveOfExisting(c) == IsSave(c) /\ ~Val(c.offer).isNew

(* C1: a save of a new offer in which createCoupon and add both succeed has *)
(* made exactly one createCoupon call, which completed before the one add   *)
(* call, no edit call, and inserted a row whose stripe_coupon_id is the id  *)
(* createCoupon returned.                                                   *)
C1_NewSaveCreatesCouponThenInserts ==
    \A p \in Procs :
        LET c == calls[p]
        IN (SaveOfNew(c) /\ c.pc = "resolved") =>
              /\ Count(c.trace, "createCoupon.call") = 1
              /\ Count(c.trace, "add.call") = 1
              /\ Count(c.trace, "edit.call") = 0
              /\ Has(c.trace, "createCoupon.ok")
              /\ Pos(c.trace, "createCoupon.ok") < Pos(c.trace, "add.call")
              /\ IsSome(c.couponData)
              /\ Val(c.written).data.stripe_coupon_id = Val(c.couponData).id
              /\ inserted[Val(c.offer).id] = Some(Val(c.couponData).id)

C1_Witness ==
    \E p \in Procs : SaveOfNew(calls[p]) /\ calls[p].pc = "resolved" /\ Has(calls[p].trace, "add.ok")

(* C2: a save of an offer that is not new makes no createCoupon call and no *)
(* add call, and exactly one edit call, which targets the offer's id with   *)
(* row data that has no stripe_coupon_id field.                             *)
C2_ExistingSaveOnlyEdits ==
    \A p \in Procs :
        LET c == calls[p]
        IN SaveOfExisting(c) =>
              /\ Count(c.trace, "createCoupon.call") = 0
              /\ Count(c.trace, "add.call") = 0
              /\ Count(c.trace, "edit.call") = 1
              /\ IsSome(c.written)
              /\ Val(c.written).options.id = Val(c.offer).id
              /\ "stripe_coupon_id" \notin DOMAIN Val(c.written).data

C2_Witness ==
    \E p \in Procs : SaveOfExisting(calls[p]) /\ calls[p].pc = "resolved" /\ Has(calls[p].trace, "edit.ok")

(* C3: a save dispatches one OfferCodeChange event when the offer is new or *)
(* its code differs from the code it was loaded with, and none otherwise;   *)
(* the event carries the offer id, the previous code and the current code,  *)
(* and no previous code when the offer is new.                              *)
C3_CodeChangeEventIffNewOrChanged ==
    \A p \in Procs :
        LET c == calls[p]
            offer == Val(c.offer)
        IN IsSave(c) =>
              IF offer.isNew \/ offer.loadedCode /= Some(offer.code)
              THEN /\ Len(c.dispatched) = 1
                   /\ c.dispatched[1].offerId = offer.id
                   /\ c.dispatched[1].currentCode = offer.code
                   /\ c.dispatched[1].previousCode = (IF offer.isNew THEN None ELSE offer.loadedCode)
              ELSE c.dispatched = <<>>

C3_Witness ==
    \E p \in Procs :
        /\ SaveOfExisting(calls[p])
        /\ Val(calls[p].offer).loadedCode /= Some(Val(calls[p].offer).code)
        /\ Len(calls[p].dispatched) = 1
        /\ calls[p].dispatched[1].previousCode = Some("spring")
        /\ calls[p].dispatched[1].currentCode = "summer"

(* C4: when createCoupon fails in a save of a new offer, the save makes no  *)
(* add and no edit call, does not call createCoupon again, and rejects with *)
(* the failure createCoupon raised.                                         *)
C4_FailedCouponPreventsInsert ==
    \A p \in Procs :
        LET c == calls[p]
        IN (SaveOfNew(c) /\ Has(c.trace, "createCoupon.err")) =>
              /\ Count(c.trace, "add.call") = 0
              /\ Count(c.trace, "edit.call") = 0
              /\ Count(c.trace, "createCoupon.call") = 1
              /\ c.pc = "rejected"
              /\ IsSome(c.raised)
              /\ Val(c.raised) \in StripeErrors
              /\ c.error = c.raised
              /\ c.outstanding = {}

C4_Witness ==
    \E p \in Procs :
        /\ SaveOfNew(calls[p])
        /\ calls[p].pc = "rejected"
        /\ Has(calls[p].trace, "createCoupon.err")
        /\ ~IsSome(storage[Val(calls[p].offer).id])

(* once inserted, a row keeps the stripe_coupon_id it was inserted with *)
CouponIdKept ==
    \A id \in Ids : IsSome(storage[id]) => Some(Val(storage[id]).stripe_coupon_id) = inserted[id]

(* C5 as stated: over any sequence of save calls at most one createCoupon   *)
(* call is ever made for an offer, and a row's stripe_coupon_id never       *)
(* changes after the insert.                                                *)
C5_AtMostOneCouponCallPerOffer ==
    /\ \A id \in Ids : couponCalls[id] <= 1
    /\ CouponIdKept

(* C5 amended: every save call makes at most one createCoupon call, and     *)
(* only when the offer is new, so the calls made for an offer never         *)
(* outnumber the saves of it while new (a save repeated after a failed      *)
(* coupon creation or a failed insert makes another call); a row's          *)
(* stripe_coupon_id never changes after the insert.                         *)
C5_OneCouponCallPerNewSave ==
    /\ \A id \in Ids : couponCalls[id] <= newSaves[id]
    /\ \A p \in Procs :
           IsSave(calls[p]) =>
               Count(calls[p].trace, "createCoupon.call") = (IF Val(calls[p].offer).isNew THEN 1 ELSE 0)
    /\ CouponIdKept

C5_Witness ==
    \E id \in Ids :
        /\ couponCalls[id] = 2
        /\ IsSome(storage[id])
        /\ \E p \in Procs : SaveOfExisting(calls[p]) /\ Val(calls[p].offer).id = id /\ calls[p].pc = "resolved"

(* every key used in a query, at any depth *)
RECURSIVE KeysOf(_)
KeysOf(query) ==
    UNION { {query[i].key} \cup UNION {KeysOf(query[i].kids[k]) : k \in 1 .. Len(query[i].kids)} :
              i \in 1 .. Len(query) }

(* the values of the conditions on `key`, in the order they are written *)
RECURSIVE ValuesOf(_, _)
RECURSIVE ValuesOfAll(_, _)
ValuesOf(query, key) ==
    IF query = <<>> THEN <<>>
    ELSE LET e == Head(query)
         IN (IF IsLogical(e.key) THEN ValuesOfAll(e.kids, key)
             ELSE IF e.key = key THEN <<e.val>> ELSE <<>>)
                \o ValuesOf(Tail(query), key)

ValuesOfAll(queries, key) ==
    IF queries = <<>> THEN <<>>
    ELSE ValuesOf(Head(queries), key) \o ValuesOfAll(Tail(queries), key)

AsActive(val) == IF val = Str("active") THEN Bool(TRUE) ELSE Bool(FALSE)

(* C6: the query mongoTransformer produces has no condition on a field other *)
(* than the rewritten status: its only keys are active and the logical       *)
(* operators, its conditions on active are the filter's status conditions,   *)
(* in order, with 'active' as true and 'archived' as false, and              *)
(* {status: 'archived'} becomes {active: false}.                             *)
C6_OnlyStatusSurvivesAsActive ==
    IsSome(fout) =>
        /\ KeysOf(Val(fout)) \subseteq {"active", "$and", "$or"}
        /\ LET given == ValuesOf(fq, "status")
               got == ValuesOf(Val(fout), "active")
           IN /\ Len(got) = Len(given)
              /\ \A i \in 1 .. Len(given) : got[i] = AsActive(given[i])
        /\ (fq = <<Cond("status", Str("archived"))>> => Val(fout) = <<Cond("active", Bool(FALSE))>>)

C6_Witness ==
    /\ IsSome(fout)
    /\ Len(fq) = 2
    /\ fq[1] = Cond("name", Str("deal"))
    /\ fq[2].key = "$or"
    /\ "code" \in KeysOf(fq)
    /\ ValuesOf(fq, "status") = <<Str("archived"), Str("active")>>
    /\ ValuesOf(Val(fout), "active") = <<Bool(FALSE), Bool(TRUE)>>

MappedFields ==
    { "name", "code", "portal_title", "portal_description", "discount_type", "discount_amount",
      "interval", "duration", "duration_in_months", "currency", "active" }

(* C7: a stored row mapped to an Offer by mapToOffer and turned back into   *)
(* row data by save has the row's value in every mapped field; the rebuilt  *)
(* data carries no stripe_coupon_id.                                        *)
C7_RowRoundTrip ==
    rt.pc = "rebuilt" =>
        /\ \A f \in MappedFields : Val(rt.rebuilt)[f] = Val(rt.row)[f]
        /\ "stripe_coupon_id" \notin DOMAIN Val(rt.rebuilt)

C7_Witness ==
    /\ rt.pc = "rebuilt"
    /\ Val(rt.row).discount_type = "amount"
    /\ Val(rt.row).discount_amount = 500
    /\ Val(rt.row).currency = Some("usd")
    /\ Val(rt.loaded).type = "fixed"
    /\ Val(rt.loaded).amount = 500
    /\ Val(rt.loaded).currency = Some("usd")
    /\ Val(rt.rebuilt).discount_type = "amount"

(* C8: a getById whose row lookup found the row, and in which no storage    *)
(* operation failed, resolves to the Offer assembled from the row, its      *)
(* product and the redemption count of that offer id, the count query       *)
(* having run in options.transacting, or in no transaction when options is  *)
(* omitted.                                                                 *)
C8_GetByIdResolvesWithOrWithoutOptions ==
    \A p \in Procs :
        LET c == calls[p]
        IN (c.op = "getById" /\ Finished(c) /\ Len(c.models) = 1 /\ ~IsSome(c.raised)) =>
              /\ c.pc = "resolved"
              /\ c.result = Some(mapToOffer(c.models[1], redemptions[c.id]))
              /\ c.countTx = <<Transacting(c.options)>>

(* C9: a save that dispatches a code-change event dispatches it before it   *)
(* calls createCoupon, add or edit.                                         *)
C9_DispatchBeforePersistence ==
    \A p \in Procs :
        LET c == calls[p]
        IN (IsSave(c) /\ c.dispatched /= <<>>) =>
              /\ Count(c.trace, "dispatch") = 1
              /\ \A l \in {"createCoupon.call", "add.call", "edit.call"} :
                     Has(c.trace, l) => Pos(c.trace, "dispatch") < Pos(c.trace, l)

C9_Witness ==
    \E p \in Procs :
        /\ IsSave(calls[p])
        /\ calls[p].pc = "resolved"
        /\ calls[p].trace = <<"dispatch", "createCoupon.call", "createCoupon.ok", "add.call", "add.ok">>

(* C10 as stated: within an invocation of any method at most one storage or *)
(* network operation is outstanding at any moment.                          *)
C10_AtMostOneOutstanding ==
    \A p \in Procs : Cardinality(calls[p].outstanding) <= 1

(* C10 amended: within an invocation of save, getById, existsByName or      *)
(* existsByCode at most one storage or network operation is outstanding.    *)
(* getAll awaits findAll alone and then starts one count query per returned *)
(* row in one pass, so that all of them are outstanding together until the  *)
(* first completes.                                                         *)
C10_OnlyGetAllCountsOverlap ==
    \A p \in Procs :
        LET c == calls[p]
            n == Len(c.models)
        IN /\ c.op /= "getAll" => Cardinality(c.outstanding) <= 1
           /\ c.op = "getAll" =>
                 /\ c.pc = "awaitFindAll" => c.outstanding = {Op("findAll", 0)}
                 /\ c.pc /= "awaitFindAll" => c.outstanding \subseteq {Op("count", i) : i \in 1 .. n}
                 /\ (c.pc = "awaitCounts" /\ \A i \in 1 .. n : c.counts[i] = None) =>
                        c.outstanding = {Op("count", i) : i \in 1 .. n}

C10_Witness ==
    \E p \in Procs :
        /\ calls[p].op = "getAll"
        /\ calls[p].pc = "awaitCounts"
        /\ Cardinality(calls[p].outstanding) = 2

====
